---- MODULE Spec2Model ----
(***************************************************************************)
(* DeadlockVisualizer: the canvas renderer of the deadlock simulation's    *)
(* browser client.  The repository holds two versions of the class:        *)
(*   "part_001"  src/unnamed/part_001 (dark palette, DPR aware)            *)
(*   "web"       src/web/static/js/visualization.js                        *)
(* One visualizer object is modelled.  A render call is synchronous, so    *)
(* each call is one action.  Coordinates are fixed point, 1/100 of a       *)
(* logical pixel; cosines and sines are fixed point, 1/1000.               *)
(* Spec is the visualizer under every payload; AppSpec is its caller,      *)
(* updateSystemState of app.js (src/unnamed/part_000), with several calls  *)
(* in flight.                                                              *)
(***************************************************************************)
EXTENDS Integers, Sequences, FiniteSets, TLC

VARIABLES
    impl,       \* which version of the class is loaded
    width,      \* surface width in logical pixels (rect.width / canvas.width)
    height,     \* surface height in logical pixels
    ctx,        \* this.ctx: the 2D context's settings; ctx.defined = FALSE when unbound
    surface,    \* what is painted on the canvas since it was last cleared
    issued,     \* the drawing operations issued by the last render call
    outcome,    \* how the last render call ended: "none", "returned", "threw"
    snapshot,   \* the payload the caller passes to the next render call
    rendered,   \* TRUE when the last render call was given snapshot
    before,     \* how many operations the canvas showed when the last call began
    dpr,        \* window.devicePixelRatio, in hundredths
    scale,      \* the context's cumulative scale factor, in hundredths
    canvasWidth,    \* canvas.width: the bitmap's width in physical pixels
    canvasHeight,   \* canvas.height
    fields,     \* the visualizer object's own properties
    \* app.js, the caller of the visualizers
    currentSimId,   \* the simulation id, "" while null
    visualizers,    \* TRUE once initializeApp has set wfgVisualizer and fsaVisualizer
    pc,         \* where each updateSystemState call is
    fetched,    \* how each call's fetch settled
    stateOf,    \* each call's const state, the parsed response
    running,    \* the call whose code is on the stack, 0 when the stack is empty
    renderLog,  \* the render calls made, in order
    shown,      \* the data last rendered on each canvas, and the state whose
                \* badge, iteration and lists the page shows
    \* app.js, the handlers of the buttons and of the keyboard shortcuts
    appJs,      \* which version of app.js is loaded
    listening,  \* TRUE once initializeEventListeners has wired the buttons
    runBtn,     \* elements.runSimBtn: disabled and textContent
    runs,       \* where the runSimulation call of each trigger is
    creating,   \* createSimulation: "idle", "posting", then "created" or "failed"
    posts,      \* the handlers awaiting the response of their POST
    sent        \* the request sent last: endpoint and simulation id

vizVars == <<impl, width, height, ctx, surface, issued, outcome, snapshot, rendered,
             before, dpr, scale, canvasWidth, canvasHeight, fields>>
appVars == <<currentSimId, visualizers, pc, fetched, stateOf, running, renderLog, shown>>
ctlVars == <<appJs, listening, runBtn, runs, creating, posts, sent>>
vars == <<vizVars, appVars, ctlVars>>

----------------------------------------------------------------------------
(* Bounds of the model *)

MaxNodes == 3       \* longest node / state sequence
MaxEdges == 2       \* longest edge sequence
MaxCalls == 2       \* updateSystemState calls in one behaviour

----------------------------------------------------------------------------
(* Program constants *)

MarginPart001 == 60         \* Math.min(centerX, centerY) - 60
MarginWeb == 50             \* Math.min(centerX, centerY) - 50
NodeRadiusPart001 == 28     \* drawNode: const radius = 28
NodeRadiusWeb == 25         \* drawNode: const radius = 25
ArrowInsetPart001 == 30     \* drawArrow: const nodeRadius = 30
ArrowInsetWeb == 25         \* drawArrow: const nodeRadius = 25
HeadLengthPart001 == 12     \* drawArrow: const headLength = 12
HeadLengthWeb == 15         \* drawArrow: const headLength = 15

Impls == {"part_001", "web"}

BackgroundColor(i) == IF i = "part_001" THEN "#0f172a" ELSE "#f8f9fa"
EdgeStrokeColor(i) == IF i = "part_001" THEN "#94a3b8" ELSE "#dc3545"
ArrowColor == "#f87171"
AlertColor == "#ef4444"
DefaultColor(i) == IF i = "part_001" THEN "#38bdf8" ELSE "#667eea"
ActiveColor(i) == IF i = "part_001" THEN "#10b981" ELSE "#28a745"
NeutralColor(i) == IF i = "part_001" THEN "#475569" ELSE "#6c757d"
Margin(i) == IF i = "part_001" THEN MarginPart001 ELSE MarginWeb
NodeRadius(i) == IF i = "part_001" THEN NodeRadiusPart001 ELSE NodeRadiusWeb
ArrowInset(i) == IF i = "part_001" THEN ArrowInsetPart001 ELSE ArrowInsetWeb
HeadLength(i) == IF i = "part_001" THEN HeadLengthPart001 ELSE HeadLengthWeb

----------------------------------------------------------------------------
(* Inputs *)

AllIds == <<"P1", "P2", "P3", "P4", "P5">>
NodeIds == {AllIds[i] : i \in 1..(IF MaxNodes < 5 THEN MaxNodes ELSE 5)}

\* sequences of unique ids, as the payload's nodes / states
RECURSIVE UniqueSeqs(_, _)
UniqueSeqs(S, n) ==
    IF n = 0 THEN {<<>>}
    ELSE LET shorter == UniqueSeqs(S, n - 1)
         IN  shorter \cup
             {Append(s, x) : <<s, x>> \in
                 {p \in shorter \X S : \A k \in 1..Len(p[1]) : p[1][k] # p[2]}}

NodeSeqs == UniqueSeqs(NodeIds, MaxNodes)

Edge(f, t) == [from |-> f, to |-> t]
\* a resolved edge, one with an unknown to and one with an unknown from
EdgePool == {Edge("P1", "P2"), Edge("P2", "X"), Edge("X", "P1")}

RECURSIVE SeqsUpTo(_, _)
SeqsUpTo(S, n) ==
    IF n = 0 THEN {<<>>}
    ELSE LET shorter == SeqsUpTo(S, n - 1)
         IN  shorter \cup {Append(s, x) : <<s, x>> \in shorter \X S}

EdgeSeqs == SeqsUpTo(EdgePool, MaxEdges)

\* deadlockedNodes: absent, or a sequence of ids
Absent == [present |-> FALSE, ids |-> <<>>]
Present(ids) == [present |-> TRUE, ids |-> ids]
DeadlockedPool == {Absent, Present(<<"P1", "X">>)}

CurrentPool == {"P1", "P3", "UNKNOWN"}

WfgData(nodes, edges, dl) ==
    [kind |-> "wfg", nodes |-> nodes, edges |-> edges, deadlockedNodes |-> dl,
     currentState |-> "", isArray |-> TRUE]
FsaArgs(states, current) ==
    [kind |-> "fsa", nodes |-> states, edges |-> <<>>, deadlockedNodes |-> Absent,
     currentState |-> current, isArray |-> TRUE]
\* states given as a mapping: nodes holds its keys in the order of insertion
FsaMapping(keys, current) ==
    [kind |-> "fsa", nodes |-> keys, edges |-> <<>>, deadlockedNodes |-> Absent,
     currentState |-> current, isArray |-> FALSE]

\* keys of a states mapping: a name, and three canonical array indices
MapKeys == {"READY", "1", "2", "10"}
MappingSnapshots ==
    {FsaMapping(keys, "2") : keys \in UniqueSeqs(MapKeys, MaxNodes)}

\* the payloads of the specification's examples: a cycle of two deadlocked
\* processes, the same without deadlockedNodes, a self-loop, the five
\* lifecycle states with a known and with an unknown current state
ExampleSnapshots ==
    LET cycle == <<Edge("P1", "P2"), Edge("P2", "P1")>>
        lifecycle == <<"NEW", "READY", "RUNNING", "BLOCKED", "TERMINATED">>
    IN  { WfgData(<<"P1", "P2">>, cycle, Present(<<"P1", "P2">>)),
          WfgData(<<"P1", "P2">>, cycle, Absent),
          WfgData(<<"P1">>, <<Edge("P1", "P1")>>, Absent),
          FsaArgs(lifecycle, "RUNNING"),
          FsaArgs(lifecycle, "UNKNOWN") }

\* every payload of the bounded shape: the first snapshot
Snapshots ==
    {WfgData(n, e, d) : <<n, e, d>> \in NodeSeqs \X EdgeSeqs \X DeadlockedPool}
    \cup {FsaArgs(s, c) : <<s, c>> \in NodeSeqs \X CurrentPool}
    \cup MappingSnapshots
    \cup ExampleSnapshots

\* the payloads of later updates
LaterSnapshots ==
    { WfgData(<<>>, <<Edge("P1", "P2")>>, Absent),
      WfgData(<<"P1", "P2">>, <<Edge("X", "P1"), Edge("P1", "P2")>>, Present(<<"P1">>)),
      FsaArgs(<<"P1", "P2">>, "P1") }

\* the state endpoint's payload: wait_for_graph and fsa, each present or not
NoData == [present |-> FALSE]
Data(d) == [present |-> TRUE, data |-> d]
SystemState(wfg, fsa) == [parsed |-> TRUE, wait_for_graph |-> wfg, fsa |-> fsa]
NoState == [parsed |-> FALSE]

\* the states the server answers with: a deadlocked cycle, a single waiting
\* process without fsa, an fsa without graph, and neither
ServerStates ==
    LET lifecycle == <<"NEW", "READY", "RUNNING", "BLOCKED", "TERMINATED">>
    IN  { SystemState(Data(WfgData(<<"P1", "P2">>,
                                   <<Edge("P1", "P2"), Edge("P2", "P1")>>,
                                   Present(<<"P1", "P2">>))),
                      Data(FsaArgs(lifecycle, "BLOCKED"))),
          SystemState(Data(WfgData(<<"P1">>, <<>>, Absent)), NoData),
          SystemState(NoData, Data(FsaArgs(lifecycle, "RUNNING"))),
          SystemState(NoData, NoData) }

\* the updateSystemState calls of one behaviour, numbered in the order in
\* which they are made
Calls == 1..MaxCalls

\* surface sizes in logical pixels: a usual one, and two whose smaller half
\* extent (60 and 50) is no larger than a margin
Sizes == {<<400, 300>>, <<120, 120>>, <<130, 100>>}

\* device pixel ratios 1, 1.25 and 2, in hundredths
Ratios == {100, 125, 200}

\* the surfaces a visualizer is constructed on: the usual size on screens of
\* ratio 1 and 2, the small sizes on a screen of ratio 1.25
Surfaces == {s \in Sizes \X Ratios : (s[1][1] = 400) # (s[2] = 125)}

----------------------------------------------------------------------------
(* Math: fixed-point trigonometry and rounding *)

Min(a, b) == IF a < b THEN a ELSE b

\* a / b rounded to the nearest integer (b > 0)
RoundDiv(a, b) == (2 * a + b) \div (2 * b)

\* the angle 2*PI*i/n in degrees, for the n whose angles are whole degrees
Degrees(i, n) == (360 * i) \div n

\* Math.cos and Math.sin, times 1000, on the angles the layouts of 1..6 ids use
Cos1000(deg) ==
    CASE deg = 0 -> 1000   [] deg = 60 -> 500    [] deg = 72 -> 309
      [] deg = 90 -> 0     [] deg = 120 -> -500  [] deg = 144 -> -809
      [] deg = 180 -> -1000 [] deg = 216 -> -809 [] deg = 240 -> -500
      [] deg = 270 -> 0    [] deg = 288 -> 309   [] deg = 300 -> 500

Sin1000(deg) ==
    CASE deg = 0 -> 0      [] deg = 60 -> 866    [] deg = 72 -> 951
      [] deg = 90 -> 1000  [] deg = 120 -> 866   [] deg = 144 -> 588
      [] deg = 180 -> 0    [] deg = 216 -> -588  [] deg = 240 -> -866
      [] deg = 270 -> -1000 [] deg = 288 -> -951 [] deg = 300 -> -866

----------------------------------------------------------------------------
(* Layout: the circle of node positions (units of 1/100 pixel) *)

CenterX(w) == w * 50        \* rect.width / 2
CenterY(h) == h * 50        \* rect.height / 2

\* const radius = Math.min(centerX, centerY) - margin
LayoutRadius(i, w, h) == Min(CenterX(w), CenterY(h)) - Margin(i) * 100

\* faulty variant: a single id is special-cased to the centre
LayoutPoint_SingleAtCentre(i, w, h, k, n) ==
    LET angle == Degrees(k, n)
        radius == IF n = 1 THEN 0 ELSE LayoutRadius(i, w, h)
    IN  [x |-> CenterX(w) + RoundDiv(radius * Cos1000(angle), 1000),
         y |-> CenterY(h) + RoundDiv(radius * Sin1000(angle), 1000)]

\* faulty variant: Math.sin and Math.cos exchanged
LayoutPoint_SwappedTrig(i, w, h, k, n) ==
    LET angle == Degrees(k, n)
        radius == LayoutRadius(i, w, h)
    IN  [x |-> CenterX(w) + RoundDiv(radius * Sin1000(angle), 1000),
         y |-> CenterY(h) + RoundDiv(radius * Cos1000(angle), 1000)]

\* the point of index k (from 0) of n: angle = (2 * Math.PI * k) / n
LayoutPoint(i, w, h, k, n) ==
    LET angle == Degrees(k, n)
        radius == LayoutRadius(i, w, h)
    IN  [x |-> CenterX(w) + RoundDiv(radius * Cos1000(angle), 1000),
         y |-> CenterY(h) + RoundDiv(radius * Sin1000(angle), 1000)]

\* nodePositions: nodes.forEach((node, i) => nodePositions[node] = {x, y});
\* a repeated id keeps the position of its last index
NodePositions(i, w, h, nodes) ==
    [id \in {nodes[k] : k \in 1..Len(nodes)} |->
        LET last == CHOOSE k \in 1..Len(nodes) :
                        /\ nodes[k] = id
                        /\ \A m \in 1..Len(nodes) : nodes[m] = id => m <= k
        IN  LayoutPoint(i, w, h, last - 1, Len(nodes))]

----------------------------------------------------------------------------
(* The 2D context: settings and drawing operations *)

\* a context as getContext('2d') returns it
FreshCtx ==
    [defined |-> TRUE, fillStyle |-> "#000000", strokeStyle |-> "#000000",
     lineWidth |-> 1, shadowBlur |-> 0, shadowColor |-> "rgba(0, 0, 0, 0)",
     font |-> "10px sans-serif", textAlign |-> "start",
     textBaseline |-> "alphabetic"]

\* this.ctx of a visualizer whose canvas was not found
NoCtx == [FreshCtx EXCEPT !.defined = FALSE]

\* a drawing in progress: the context settings and the operations issued so far
Drawing(c) == [ctx |-> c, ops |-> <<>>, threw |-> FALSE]

SetCtx(d, field, value) == [d EXCEPT !.ctx = [@ EXCEPT ![field] = value]]
Emit(d, op) == [d EXCEPT !.ops = Append(@, op)]

\* the shadow an operation is painted with: none unless shadowBlur is set
\* (the offsets are never set)
Shadow(c) ==
    IF c.shadowBlur = 0 THEN [blur |-> 0, color |-> "none"]
    ELSE [blur |-> c.shadowBlur, color |-> c.shadowColor]

ClearRect(d, w, h) ==
    Emit(d, [op |-> "clearRect", w |-> w, h |-> h])

FillRect(d, w, h) ==
    Emit(d, [op |-> "fillRect", w |-> w, h |-> h, fillStyle |-> d.ctx.fillStyle,
             shadow |-> Shadow(d.ctx)])

FillArc(d, x, y, r) ==
    Emit(d, [op |-> "fillArc", x |-> x, y |-> y, r |-> r,
             fillStyle |-> d.ctx.fillStyle, shadow |-> Shadow(d.ctx)])

StrokeArc(d, x, y, r) ==
    Emit(d, [op |-> "strokeArc", x |-> x, y |-> y, r |-> r,
             strokeStyle |-> d.ctx.strokeStyle, lineWidth |-> d.ctx.lineWidth,
             shadow |-> Shadow(d.ctx)])

FillText(d, label, x, y) ==
    Emit(d, [op |-> "fillText", label |-> label, x |-> x, y |-> y,
             fillStyle |-> d.ctx.fillStyle, font |-> d.ctx.font,
             textAlign |-> d.ctx.textAlign, textBaseline |-> d.ctx.textBaseline,
             shadow |-> Shadow(d.ctx)])

\* the segment between two node centres, each end pulled in by inset
StrokeLine(d, x1, y1, x2, y2, inset) ==
    Emit(d, [op |-> "strokeLine", x1 |-> x1, y1 |-> y1, x2 |-> x2, y2 |-> y2,
             inset |-> inset, strokeStyle |-> d.ctx.strokeStyle,
             lineWidth |-> d.ctx.lineWidth, shadow |-> Shadow(d.ctx)])

\* the arrowhead at the (pulled in) end of the segment towards (x2, y2)
Arrowhead(d, x1, y1, x2, y2, inset, headLength, mode) ==
    Emit(d, [op |-> "arrowhead", x1 |-> x1, y1 |-> y1, x2 |-> x2, y2 |-> y2,
             inset |-> inset, headLength |-> headLength, mode |-> mode,
             style |-> IF mode = "fill" THEN d.ctx.fillStyle ELSE d.ctx.strokeStyle,
             lineWidth |-> d.ctx.lineWidth, shadow |-> Shadow(d.ctx)])

----------------------------------------------------------------------------
(* DeadlockVisualizer: the drawing methods *)

\* faulty variant: the background is painted without clearing first
ClearCanvas_NoClearRect(d, i, w, h) ==
    FillRect(SetCtx(d, "fillStyle", BackgroundColor(i)), w, h)

\* clearCanvas() / clear(): clearRect, then the background fillRect
ClearCanvas(d, i, w, h) ==
    LET d1 == ClearRect(d, w, h)
        d2 == SetCtx(d1, "fillStyle", BackgroundColor(i))
    IN  FillRect(d2, w, h)

\* faulty variant: part_001 without `this.ctx.shadowBlur = 0` after the outline
DrawNode_NoShadowReset(d, i, x, y, label, color) ==
    IF i = "part_001"
    THEN LET d1 == SetCtx(SetCtx(d, "shadowBlur", 15), "shadowColor", color)
             d2 == FillArc(SetCtx(d1, "fillStyle", "#1e293b"), x, y, NodeRadius(i) * 100)
             d3 == SetCtx(SetCtx(d2, "strokeStyle", color), "lineWidth", 3)
             d4 == StrokeArc(d3, x, y, NodeRadius(i) * 100)
             d5 == SetCtx(SetCtx(d4, "fillStyle", "#f1f5f9"),
                          "font", "bold 14px \"Segoe UI\", Arial")
             d6 == SetCtx(SetCtx(d5, "textAlign", "center"), "textBaseline", "middle")
         IN  FillText(d6, label, x, y)
    ELSE LET d1 == FillArc(SetCtx(d, "fillStyle", color), x, y, NodeRadius(i) * 100)
             d2 == SetCtx(SetCtx(d1, "strokeStyle", "#333"), "lineWidth", 2)
             d3 == StrokeArc(d2, x, y, NodeRadius(i) * 100)
             d4 == SetCtx(SetCtx(d3, "fillStyle", "#fff"), "font", "bold 14px Arial")
             d5 == SetCtx(SetCtx(d4, "textAlign", "center"), "textBaseline", "middle")
         IN  FillText(d5, label, x, y)

\* drawNode(x, y, label, color)
DrawNode(d, i, x, y, label, color) ==
    IF i = "part_001"
    THEN LET d1 == SetCtx(SetCtx(d, "shadowBlur", 15), "shadowColor", color)
             d2 == FillArc(SetCtx(d1, "fillStyle", "#1e293b"), x, y, NodeRadius(i) * 100)
             d3 == SetCtx(SetCtx(d2, "strokeStyle", color), "lineWidth", 3)
             d4 == SetCtx(StrokeArc(d3, x, y, NodeRadius(i) * 100), "shadowBlur", 0)
             d5 == SetCtx(SetCtx(d4, "fillStyle", "#f1f5f9"),
                          "font", "bold 14px \"Segoe UI\", Arial")
             d6 == SetCtx(SetCtx(d5, "textAlign", "center"), "textBaseline", "middle")
         IN  FillText(d6, label, x, y)
    ELSE LET d1 == FillArc(SetCtx(d, "fillStyle", color), x, y, NodeRadius(i) * 100)
             d2 == SetCtx(SetCtx(d1, "strokeStyle", "#333"), "lineWidth", 2)
             d3 == StrokeArc(d2, x, y, NodeRadius(i) * 100)
             d4 == SetCtx(SetCtx(d3, "fillStyle", "#fff"), "font", "bold 14px Arial")
             d5 == SetCtx(SetCtx(d4, "textAlign", "center"), "textBaseline", "middle")
         IN  FillText(d5, label, x, y)

\* drawArrow(x1, y1, x2, y2, color): the line, then the arrowhead
DrawArrow(d, i, x1, y1, x2, y2, color) ==
    IF i = "part_001"
    THEN LET d1 == SetCtx(d, "strokeStyle", color)
             d2 == StrokeLine(d1, x1, y1, x2, y2, ArrowInset(i) * 100)
             d3 == SetCtx(d2, "fillStyle", color)
         IN  Arrowhead(d3, x1, y1, x2, y2, ArrowInset(i) * 100,
                       HeadLength(i) * 100, "fill")
    ELSE LET d1 == StrokeLine(d, x1, y1, x2, y2, ArrowInset(i) * 100)
         IN  Arrowhead(d1, x1, y1, x2, y2, ArrowInset(i) * 100,
                       HeadLength(i) * 100, "stroke")

\* if (start && end): both endpoints have an entry in nodePositions
EdgeResolved(positions, edge) ==
    /\ edge.from \in DOMAIN positions
    /\ edge.to \in DOMAIN positions

\* faulty variant: an endpoint without a position falls back to the origin
\* (nodePositions[from] || { x: 0, y: 0 })
RECURSIVE DrawEdges_DefaultOrigin(_, _, _, _, _)
DrawEdges_DefaultOrigin(d, i, positions, edges, k) ==
    IF k > Len(edges) THEN d
    ELSE LET edge == edges[k]
             origin == [x |-> 0, y |-> 0]
             start == IF edge.from \in DOMAIN positions
                      THEN positions[edge.from] ELSE origin
             end == IF edge.to \in DOMAIN positions
                    THEN positions[edge.to] ELSE origin
         IN  DrawEdges_DefaultOrigin(
                 DrawArrow(d, i, start.x, start.y, end.x, end.y, ArrowColor),
                 i, positions, edges, k + 1)

\* faulty variant: the loop over the edges ends at the first unresolved edge
RECURSIVE DrawEdges_AbortOnUnknown(_, _, _, _, _)
DrawEdges_AbortOnUnknown(d, i, positions, edges, k) ==
    IF k > Len(edges) THEN d
    ELSE LET edge == edges[k]
         IN  IF EdgeResolved(positions, edge)
             THEN DrawEdges_AbortOnUnknown(
                      DrawArrow(d, i, positions[edge.from].x, positions[edge.from].y,
                                positions[edge.to].x, positions[edge.to].y, ArrowColor),
                      i, positions, edges, k + 1)
             ELSE d

\* faulty variant: only start is tested (if (start)), so end.x of an unknown
\* to throws a TypeError
RECURSIVE DrawEdges_StartOnly(_, _, _, _, _)
DrawEdges_StartOnly(d, i, positions, edges, k) ==
    IF k > Len(edges) THEN d
    ELSE LET edge == edges[k]
         IN  IF edge.from \notin DOMAIN positions
             THEN DrawEdges_StartOnly(d, i, positions, edges, k + 1)
             ELSE IF edge.to \notin DOMAIN positions
                  THEN [d EXCEPT !.threw = TRUE]
                  ELSE DrawEdges_StartOnly(
                           DrawArrow(d, i, positions[edge.from].x, positions[edge.from].y,
                                     positions[edge.to].x, positions[edge.to].y,
                                     ArrowColor),
                           i, positions, edges, k + 1)

\* edges.forEach(({ from, to }) => { if (start && end) this.drawArrow(...) })
RECURSIVE DrawEdges(_, _, _, _, _)
DrawEdges(d, i, positions, edges, k) ==
    IF k > Len(edges) THEN d
    ELSE LET edge == edges[k]
             next ==
                 IF EdgeResolved(positions, edge)
                 THEN DrawArrow(d, i, positions[edge.from].x, positions[edge.from].y,
                                positions[edge.to].x, positions[edge.to].y, ArrowColor)
                 ELSE d
         IN  DrawEdges(next, i, positions, edges, k + 1)

\* wfgData.deadlockedNodes && wfgData.deadlockedNodes.includes(node)
IsDeadlocked(wfgData, node) ==
    /\ wfgData.deadlockedNodes.present
    /\ \E k \in 1..Len(wfgData.deadlockedNodes.ids) : wfgData.deadlockedNodes.ids[k] = node

\* the color drawWaitForGraph hands to drawNode
NodeColor(i, wfgData, node) ==
    IF i = "part_001"
    THEN IF IsDeadlocked(wfgData, node) THEN AlertColor ELSE DefaultColor(i)
    ELSE DefaultColor(i)

\* nodes.forEach(node => { ... this.drawNode(pos.x, pos.y, node, color) })
RECURSIVE DrawNodes(_, _, _, _, _)
DrawNodes(d, i, positions, wfgData, k) ==
    IF k > Len(wfgData.nodes) THEN d
    ELSE LET node == wfgData.nodes[k]
             pos == positions[node]
         IN  DrawNodes(DrawNode(d, i, pos.x, pos.y, node, NodeColor(i, wfgData, node)),
                       i, positions, wfgData, k + 1)

\* faulty variant: an empty node list returns before the canvas is cleared
DrawWaitForGraphCall_SkipEmpty(i, c, w, h, wfgData) ==
    IF ~c.defined \/ Len(wfgData.nodes) = 0 THEN Drawing(c)
    ELSE LET d1 == ClearCanvas(Drawing(c), i, w, h)
             positions == NodePositions(i, w, h, wfgData.nodes)
             d2 == SetCtx(SetCtx(d1, "strokeStyle", EdgeStrokeColor(i)), "lineWidth", 2)
             d3 == DrawEdges(d2, i, positions, wfgData.edges, 1)
         IN  DrawNodes(d3, i, positions, wfgData, 1)

\* faulty variant: the nodes are drawn first and the edges over them
DrawWaitForGraphCall_NodesFirst(i, c, w, h, wfgData) ==
    IF ~c.defined THEN Drawing(c)
    ELSE LET d1 == ClearCanvas(Drawing(c), i, w, h)
             positions == NodePositions(i, w, h, wfgData.nodes)
             d2 == SetCtx(SetCtx(d1, "strokeStyle", EdgeStrokeColor(i)), "lineWidth", 2)
             d3 == DrawNodes(d2, i, positions, wfgData, 1)
         IN  DrawEdges(d3, i, positions, wfgData.edges, 1)

\* drawWaitForGraph(wfgData) on a visualizer with context c
DrawWaitForGraphCall(i, c, w, h, wfgData) ==
    IF ~c.defined THEN Drawing(c)
    ELSE LET d1 == ClearCanvas(Drawing(c), i, w, h)
             positions == NodePositions(i, w, h, wfgData.nodes)
             d2 == SetCtx(SetCtx(d1, "strokeStyle", EdgeStrokeColor(i)), "lineWidth", 2)
             d3 == DrawEdges(d2, i, positions, wfgData.edges, 1)
         IN  DrawNodes(d3, i, positions, wfgData, 1)

\* faulty variant: the first state is taken for the current one
StateColor_FirstIsCurrent(i, state, currentState) ==
    IF state = "P1" THEN ActiveColor(i) ELSE NeutralColor(i)

\* state === currentState ? active : neutral
StateColor(i, state, currentState) ==
    IF state = currentState THEN ActiveColor(i) ELSE NeutralColor(i)

\* stateList.forEach((state, i) => { ... this.drawNode(x, y, state, color) })
RECURSIVE DrawStates(_, _, _, _, _, _, _)
DrawStates(d, i, w, h, stateList, currentState, k) ==
    IF k > Len(stateList) THEN d
    ELSE LET p == LayoutPoint(i, w, h, k - 1, Len(stateList))
         IN  DrawStates(DrawNode(d, i, p.x, p.y, stateList[k],
                                 StateColor(i, stateList[k], currentState)),
                        i, w, h, stateList, currentState, k + 1)

\* what drawFSADiagram does when this.ctx is undefined: part_001 returns,
\* visualization.js calls this.clear(), whose this.ctx.clearRect throws a TypeError
FSAWithoutCtx(i, c) ==
    IF i = "part_001" THEN Drawing(c)
    ELSE [Drawing(c) EXCEPT !.threw = TRUE]

\* the number a property key stands for when it is a canonical array index
\* (which Object.keys lists first, in ascending order), -1 for any other key
ArrayIndex(key) ==
    CASE key = "1" -> 1
      [] key = "2" -> 2
      [] key = "10" -> 10
      [] OTHER -> -1

IsArrayIndex(key) == ArrayIndex(key) >= 0
IsName(key) == ~IsArrayIndex(key)

\* the array index keys among keys, in ascending numeric order
RECURSIVE AscendingIndices(_)
AscendingIndices(keys) ==
    IF keys = <<>> THEN <<>>
    ELSE LET least == CHOOSE k \in 1..Len(keys) :
                          \A m \in 1..Len(keys) :
                              ArrayIndex(keys[k]) <= ArrayIndex(keys[m])
             rest == [m \in 1..(Len(keys) - 1) |->
                          IF m < least THEN keys[m] ELSE keys[m + 1]]
         IN  <<keys[least]>> \o AscendingIndices(rest)

\* Object.keys(states) of a mapping whose keys were inserted in the order keys
ObjectKeys(keys) ==
    AscendingIndices(SelectSeq(keys, IsArrayIndex)) \o SelectSeq(keys, IsName)

\* const stateList = Array.isArray(states) ? states : Object.keys(states)
StateList(states, isArray) == IF isArray THEN states ELSE ObjectKeys(states)

\* faulty variant: the transitions between consecutive states are drawn too
DrawFSADiagramCall_WithTransitions(i, c, w, h, states, isArray, currentState) ==
    IF ~c.defined THEN FSAWithoutCtx(i, c)
    ELSE LET stateList == StateList(states, isArray)
             positions == NodePositions(i, w, h, stateList)
             transitions == [k \in 1..(Len(stateList) - 1) |->
                                Edge(stateList[k], stateList[k + 1])]
             cleared == ClearCanvas(Drawing(c), i, w, h)
         IN  DrawStates(DrawEdges(cleared, i, positions, transitions, 1),
                        i, w, h, stateList, currentState, 1)

\* drawFSADiagram(states, currentState) on a visualizer with context c
DrawFSADiagramCall(i, c, w, h, states, isArray, currentState) ==
    IF ~c.defined THEN FSAWithoutCtx(i, c)
    ELSE DrawStates(ClearCanvas(Drawing(c), i, w, h), i, w, h,
                    StateList(states, isArray), currentState, 1)

\* the canvas after the operations ops: a clearRect that, under the context's
\* scale, covers the w by h physical pixels of the bitmap erases it
RECURSIVE Paint(_, _, _, _, _)
Paint(content, ops, w, h, k) ==
    IF k > Len(ops) THEN content
    ELSE IF /\ ops[k].op = "clearRect"
            /\ ops[k].w * scale >= w * 100
            /\ ops[k].h * scale >= h * 100
         THEN Paint(<<>>, ops, w, h, k + 1)
         ELSE Paint(Append(content, ops[k]), ops, w, h, k + 1)

\* the constructor's canvas.width = rect.width * dpr (an integer attribute: the
\* fraction is dropped); visualization.js leaves the attribute as it is
CanvasSize(i, logical, ratio) ==
    IF i = "part_001" THEN (logical * ratio) \div 100 ELSE logical

\* the constructor's this.ctx.scale(dpr, dpr); visualization.js never scales
CtxScale(i, ratio) == IF i = "part_001" THEN ratio ELSE 100

\* faulty variant: the layout reads the bitmap's size
SurfaceSize_Physical(i, logical, physical) == physical

\* the size a render call lays out and clears: getBoundingClientRect() in
\* part_001, canvas.width / canvas.height in visualization.js
SurfaceSize(i, logical, physical) ==
    IF i = "part_001" THEN logical ELSE physical

----------------------------------------------------------------------------
(* The state machine *)

\* new DeadlockVisualizer(canvasId): the canvas is found or it is not
\* the properties the constructor leaves on the object: canvas and ctx when the
\* element is found, and in visualization.js also nodes = [] and edges = []
ConstructedFields(i, found) ==
    [canvas |-> found, ctx |-> found,
     nodes |-> IF found /\ i = "web" THEN Present(<<>>) ELSE Absent,
     edges |-> IF found /\ i = "web" THEN Present(<<>>) ELSE Absent]

\* the two versions of app.js in src/unnamed/part_000: lines 1-585 and 586-1017
AppVersions == {"first", "second"}

\* what starts a runSimulation call: the run button, Ctrl/Cmd+Enter
Triggers == {"click", "shortcut"}

\* the handlers of addProcess, addResource, requestResource, resetSimulation,
\* named by the endpoint they post to
Handlers == {"process", "resource", "request", "reset"}

\* a request to the server; sim is the id in its path, "" for null
Request(endpoint, sim) == [endpoint |-> endpoint, sim |-> sim]
NoRequest == Request("none", "")

\* the handlers as the script is loaded: no listener on a button, no request
\* sent; disabled is the run button's disabled attribute in the page
ControlLoaded(version, disabled) ==
    /\ appJs = version
    /\ listening = FALSE
    /\ runBtn = [disabled |-> disabled, label |-> "Run Simulation"]
    /\ runs = [t \in Triggers |-> "idle"]
    /\ creating = "idle"
    /\ posts = {}
    /\ sent = NoRequest

\* app.js before initializeApp: no simulation, no visualizer, no call made
AppLoaded ==
    /\ currentSimId = ""
    /\ visualizers = FALSE
    /\ pc = [c \in Calls |-> "idle"]
    /\ fetched = [c \in Calls |-> "none"]
    /\ stateOf = [c \in Calls |-> NoState]
    /\ running = 0
    /\ renderLog = <<>>
    /\ shown = [wfg |-> NoData, fsa |-> NoData, page |-> NoState]

Init ==
    /\ AppLoaded
    /\ ControlLoaded("second", FALSE)
    /\ impl \in Impls
    /\ \/ /\ ctx = FreshCtx
          /\ \E s \in Surfaces :
                /\ width = s[1][1]
                /\ height = s[1][2]
                /\ dpr = s[2]
                /\ canvasWidth = CanvasSize(impl, s[1][1], s[2])
                /\ canvasHeight = CanvasSize(impl, s[1][2], s[2])
                /\ scale = CtxScale(impl, s[2])
       \/ /\ ctx = NoCtx
          /\ width = 0
          /\ height = 0
          /\ dpr = 100
          /\ canvasWidth = 0
          /\ canvasHeight = 0
          /\ scale = 100
    /\ surface = <<>>
    /\ issued = <<>>
    /\ outcome = "none"
    /\ rendered = FALSE
    /\ before = 0
    /\ snapshot \in Snapshots
    /\ fields = ConstructedFields(impl, ctx.defined)

\* faulty variant: the call remembers the node ids it laid out in this.nodes
Finish_KeepsNodes(d) ==
    /\ ctx' = d.ctx
    /\ issued' = d.ops
    /\ surface' = Paint(surface, d.ops, canvasWidth, canvasHeight, 1)
    /\ outcome' = IF d.threw THEN "threw" ELSE "returned"
    /\ rendered' = TRUE
    /\ before' = Len(surface)
    /\ fields' = [fields EXCEPT !.nodes = Present(snapshot.nodes)]
    /\ UNCHANGED <<impl, width, height, snapshot, dpr, scale, canvasWidth,
                   canvasHeight, appVars, ctlVars>>

\* a render call returns (or throws): the context keeps the settings the call
\* left, the canvas shows what the call painted, nothing else is written
Finish(d) ==
    /\ ctx' = d.ctx
    /\ issued' = d.ops
    /\ surface' = Paint(surface, d.ops, canvasWidth, canvasHeight, 1)
    /\ outcome' = IF d.threw THEN "threw" ELSE "returned"
    /\ rendered' = TRUE
    /\ before' = Len(surface)
    /\ UNCHANGED <<impl, width, height, snapshot, dpr, scale, canvasWidth,
                   canvasHeight, fields, appVars, ctlVars>>

DrawWaitForGraph ==
    /\ snapshot.kind = "wfg"
    /\ Finish(DrawWaitForGraphCall(impl, ctx, SurfaceSize(impl, width, canvasWidth),
                                   SurfaceSize(impl, height, canvasHeight), snapshot))

DrawFSADiagram ==
    /\ snapshot.kind = "fsa"
    /\ Finish(DrawFSADiagramCall(impl, ctx, SurfaceSize(impl, width, canvasWidth),
                                 SurfaceSize(impl, height, canvasHeight),
                                 snapshot.nodes, snapshot.isArray,
                                 snapshot.currentState))

\* the caller gets the payload of a later update
Receive ==
    /\ \E s \in LaterSnapshots : snapshot' = s
    /\ rendered' = FALSE
    /\ UNCHANGED <<impl, width, height, ctx, surface, issued, outcome, before,
                   dpr, scale, canvasWidth, canvasHeight, fields, appVars, ctlVars>>

Next == DrawWaitForGraph \/ DrawFSADiagram \/ Receive

Spec == Init /\ [][Next]_vars

----------------------------------------------------------------------------
(* app.js: updateSystemState, the caller of the two visualizers.  Its code    *)
(* runs on one stack: a call's code between two awaits is not interrupted,   *)
(* and a settled promise resumes its call only when the stack is empty.      *)

\* the visualizer of Spec, constructed on the usual surface and left alone
VisualizerConstructed ==
    /\ impl = "part_001"
    /\ ctx = FreshCtx
    /\ width = 400
    /\ height = 300
    /\ dpr = 100
    /\ canvasWidth = CanvasSize("part_001", 400, 100)
    /\ canvasHeight = CanvasSize("part_001", 300, 100)
    /\ scale = CtxScale("part_001", 100)
    /\ fields = ConstructedFields("part_001", TRUE)
    /\ surface = <<>>
    /\ issued = <<>>
    /\ outcome = "none"
    /\ rendered = FALSE
    /\ before = 0
    /\ snapshot = WfgData(<<>>, <<>>, Absent)

AppInit == AppLoaded /\ VisualizerConstructed /\ ControlLoaded("second", FALSE)

\* initializeApp with the server ready: the buttons get their listeners and,
\* in the second version, both visualizers are created
InitializeApp ==
    /\ running = 0
    /\ ~listening
    /\ listening' = TRUE
    /\ visualizers' = (appJs = "second")
    /\ UNCHANGED <<currentSimId, pc, fetched, stateOf, running, renderLog, shown,
                   vizVars, appJs, runBtn, runs, creating, posts, sent>>

\* createSimulation succeeded: currentSimId = data.simulation_id
CreateSimulation ==
    /\ running = 0
    /\ currentSimId = ""
    /\ currentSimId' = "sim1"
    /\ UNCHANGED <<visualizers, pc, fetched, stateOf, running, renderLog, shown,
                   vizVars, ctlVars>>

\* updateSystemState() is called: it returns when currentSimId is null,
\* otherwise it issues the fetch and suspends on it
UpdateSystemState(c) ==
    /\ running = 0
    /\ pc[c] = "idle"
    /\ \A earlier \in 1..(c - 1) : pc[earlier] # "idle"
    /\ pc' = [pc EXCEPT ![c] = IF currentSimId = "" THEN "done" ELSE "fetching"]
    /\ UNCHANGED <<currentSimId, visualizers, fetched, stateOf, running, renderLog,
                   shown, vizVars, ctlVars>>

\* faulty variant: a failed fetch blanks the badge and the lists
FetchSettles_BlanksOnError(c) ==
    /\ running = 0
    /\ pc[c] = "fetching"
    /\ \E how \in {"ok", "notOk", "rejected"} :
          /\ fetched' = [fetched EXCEPT ![c] = how]
          /\ pc' = [pc EXCEPT ![c] = IF how = "ok" THEN "reading" ELSE "done"]
          /\ shown' = IF how = "ok" THEN shown ELSE [shown EXCEPT !.page = NoState]
    /\ UNCHANGED <<currentSimId, visualizers, stateOf, running, renderLog, vizVars, ctlVars>>

\* the fetch settles: a response that is ok goes on to response.json(); a
\* response that is not ok throws, a rejected fetch throws, and catch ends
\* the call
FetchSettles(c) ==
    /\ running = 0
    /\ pc[c] = "fetching"
    /\ \E how \in {"ok", "notOk", "rejected"} :
          /\ fetched' = [fetched EXCEPT ![c] = how]
          /\ pc' = [pc EXCEPT ![c] = IF how = "ok" THEN "reading" ELSE "done"]
    /\ UNCHANGED <<currentSimId, visualizers, stateOf, running, renderLog, shown,
                   vizVars, ctlVars>>

\* response.json() rejects: catch ends the call
JsonRejects(c) ==
    /\ running = 0
    /\ pc[c] = "reading"
    /\ pc' = [pc EXCEPT ![c] = "done"]
    /\ UNCHANGED <<currentSimId, visualizers, fetched, stateOf, running, renderLog,
                   shown, vizVars, ctlVars>>

\* response.json() resolves: the call resumes with its state and writes the
\* badge and the lists, up to the first render
JsonResolves(c) ==
    /\ running = 0
    /\ pc[c] = "reading"
    /\ \E s \in ServerStates :
          /\ stateOf' = [stateOf EXCEPT ![c] = s]
          /\ shown' = [shown EXCEPT !.page = s]
    /\ running' = c
    /\ pc' = [pc EXCEPT ![c] = "atWfg"]
    /\ UNCHANGED <<currentSimId, visualizers, fetched, renderLog, vizVars, ctlVars>>

\* faulty variant: the graph is drawn whether the state has one or not
Wanted_AnyState(visualizer, data) == visualizer

\* if (wfgVisualizer && state.wait_for_graph), if (fsaVisualizer && state.fsa)
Wanted(visualizer, data) == visualizer /\ data.present

\* faulty variant: the render suspends, as an async method awaiting would
EnterRender_Suspends(c, at, canvas, method, data) ==
    /\ running = c
    /\ pc[c] = at
    /\ Wanted(visualizers, data)
    /\ pc' = [pc EXCEPT ![c] = canvas]
    /\ renderLog' = Append(renderLog, [by |-> c, method |-> method, arg |-> data])
    /\ running' = 0
    /\ UNCHANGED <<currentSimId, visualizers, fetched, stateOf, shown, vizVars, ctlVars>>

\* the call enters a render method of the visualizer of canvas
EnterRender(c, at, canvas, method, data) ==
    /\ running = c
    /\ pc[c] = at
    /\ Wanted(visualizers, data)
    /\ pc' = [pc EXCEPT ![c] = canvas]
    /\ renderLog' = Append(renderLog, [by |-> c, method |-> method, arg |-> data])
    /\ UNCHANGED <<currentSimId, visualizers, fetched, stateOf, running, shown,
                   vizVars, ctlVars>>

\* the call is past the last render: updateSystemState returns
Returned(c, next) ==
    /\ pc' = [pc EXCEPT ![c] = next]
    /\ running' = IF next = "done" THEN 0 ELSE running

\* the render method returns: the canvas shows the data
LeaveRender(c, canvas, next, data) ==
    /\ running = c
    /\ pc[c] = canvas
    /\ shown' = [shown EXCEPT ![canvas] = data]
    /\ Returned(c, next)
    /\ UNCHANGED <<currentSimId, visualizers, fetched, stateOf, renderLog, vizVars, ctlVars>>

\* the condition of a render is false: the call goes on
SkipRender(c, at, next, data) ==
    /\ running = c
    /\ pc[c] = at
    /\ ~Wanted(visualizers, data)
    /\ Returned(c, next)
    /\ UNCHANGED <<currentSimId, visualizers, fetched, stateOf, renderLog, shown,
                   vizVars, ctlVars>>

EnterWfg(c) ==
    EnterRender(c, "atWfg", "wfg", "drawWaitForGraph", stateOf[c].wait_for_graph)
LeaveWfg(c) == LeaveRender(c, "wfg", "atFsa", stateOf[c].wait_for_graph)
SkipWfg(c) == SkipRender(c, "atWfg", "atFsa", stateOf[c].wait_for_graph)
EnterFsa(c) == EnterRender(c, "atFsa", "fsa", "drawFSADiagram", stateOf[c].fsa)
LeaveFsa(c) == LeaveRender(c, "fsa", "done", stateOf[c].fsa)
SkipFsa(c) == SkipRender(c, "atFsa", "done", stateOf[c].fsa)

AppNext ==
    \/ InitializeApp
    \/ CreateSimulation
    \/ \E c \in Calls : UpdateSystemState(c)
    \/ \E c \in Calls : FetchSettles(c)
    \/ \E c \in Calls : JsonRejects(c)
    \/ \E c \in Calls : JsonResolves(c)
    \/ \E c \in Calls : EnterWfg(c)
    \/ \E c \in Calls : LeaveWfg(c)
    \/ \E c \in Calls : SkipWfg(c)
    \/ \E c \in Calls : EnterFsa(c)
    \/ \E c \in Calls : LeaveFsa(c)
    \/ \E c \in Calls : SkipFsa(c)

AppSpec == AppInit /\ [][AppNext]_vars

----------------------------------------------------------------------------
(* app.js: the handlers of the buttons and of the keyboard shortcuts, and the *)
(* requests they send.  A handler runs up to its first await in one step;    *)
(* the awaits on a fetch and on its response.json() are one step, since      *)
(* nothing is written between them.  The state fetch made by a handler's     *)
(* `await updateSystemState()` is followed in AppSpec; here only its request *)
(* is recorded.                                                              *)

ControlInit ==
    /\ AppLoaded
    /\ VisualizerConstructed
    /\ \E version \in AppVersions, disabled \in BOOLEAN :
           ControlLoaded(version, disabled)

\* faulty variant: the handlers send whatever currentSimId is
HasSim_Unchecked(id) == TRUE

\* the negation of `if (!currentSimId) return ...` at the head of each handler
HasSim(id) == id # ""

\* updateSystemState() called by a handler: the GET of the state, unless
\* currentSimId is null
StateRequest(id, last) == IF HasSim(id) THEN Request("state", id) ELSE last

\* the create button is clicked: createSimulation posts to /simulation/create
ClickCreate ==
    /\ listening
    /\ creating # "posting"
    /\ creating' = "posting"
    /\ sent' = Request("create", "")
    /\ UNCHANGED <<appJs, listening, runBtn, runs, posts, appVars, vizVars>>

\* the create request settles: on an ok response currentSimId is set, the
\* buttons are enabled and updateSystemState is called; otherwise catch alerts
CreateSettles ==
    /\ creating = "posting"
    /\ \E ok \in BOOLEAN :
          IF ok
          THEN /\ creating' = "created"
               /\ currentSimId' = "sim1"
               /\ runBtn' = [runBtn EXCEPT !.disabled = FALSE]
               /\ sent' = StateRequest("sim1", sent)
          ELSE /\ creating' = "failed"
               /\ UNCHANGED <<currentSimId, runBtn, sent>>
    /\ UNCHANGED <<appJs, listening, runs, posts, visualizers, pc, fetched, stateOf,
                   running, renderLog, shown, vizVars>>

\* the button of handler h is clicked, or Ctrl/Cmd+R is pressed for reset: the
\* handler alerts and returns when currentSimId is null, otherwise it posts
ClickHandler(h) ==
    /\ listening \/ h = "reset"
    /\ h \notin posts
    /\ IF HasSim(currentSimId)
       THEN /\ posts' = posts \cup {h}
            /\ sent' = Request(h, currentSimId)
       ELSE UNCHANGED <<posts, sent>>
    /\ UNCHANGED <<appJs, listening, runBtn, runs, creating, appVars, vizVars>>

\* the POST of handler h settles: after a success the handler calls
\* updateSystemState, after a failure its catch reports the error
PostSettles(h) ==
    /\ h \in posts
    /\ posts' = posts \ {h}
    /\ \E ok \in BOOLEAN :
          sent' = IF ok THEN StateRequest(currentSimId, sent) ELSE sent
    /\ UNCHANGED <<appJs, listening, runBtn, runs, creating, appVars, vizVars>>

\* the trigger reaches runSimulation: a disabled button dispatches no click;
\* the keydown handler of the first version tests runSimBtn.disabled, the one
\* of the second version does not
Dispatches(t) ==
    IF t = "click" THEN listening /\ ~runBtn.disabled
    ELSE appJs = "first" => ~runBtn.disabled

\* runSimulation() up to its await: the button is disabled and the run posted
RunSimulation(t) ==
    /\ runs[t] \in {"idle", "returned"}
    /\ Dispatches(t)
    /\ IF HasSim(currentSimId)
       THEN /\ runBtn' = [disabled |-> TRUE, label |-> "Running..."]
            /\ runs' = [runs EXCEPT ![t] = "posting"]
            /\ sent' = Request("run", currentSimId)
       ELSE UNCHANGED <<runBtn, runs, sent>>
    /\ UNCHANGED <<appJs, listening, creating, posts, appVars, vizVars>>

\* finally: the button is enabled and its label restored
RunFinally(t) ==
    /\ runBtn' = [disabled |-> FALSE, label |-> "Run Simulation"]
    /\ runs' = [runs EXCEPT ![t] = "returned"]

\* faulty variant: the button is restored at the end of try, not in finally
RunSettles_NoFinally(t) ==
    /\ runs[t] = "posting"
    /\ \E how \in {"complete", "other", "notOk", "rejected"} :
          IF how = "complete"
          THEN /\ runs' = [runs EXCEPT ![t] = "updating"]
               /\ sent' = StateRequest(currentSimId, sent)
               /\ UNCHANGED runBtn
          ELSE IF how = "other"
          THEN RunFinally(t) /\ UNCHANGED sent
          ELSE /\ runs' = [runs EXCEPT ![t] = "returned"]
               /\ UNCHANGED <<runBtn, sent>>
    /\ UNCHANGED <<appJs, listening, creating, posts, appVars, vizVars>>

\* the run request settles: a complete report is displayed and
\* updateSystemState awaited; another status falls through; a response that
\* is not ok and a network error go through catch; all but the first end in
\* finally
RunSettles(t) ==
    /\ runs[t] = "posting"
    /\ \E how \in {"complete", "other", "notOk", "rejected"} :
          IF how = "complete"
          THEN /\ runs' = [runs EXCEPT ![t] = "updating"]
               /\ sent' = StateRequest(currentSimId, sent)
               /\ UNCHANGED runBtn
          ELSE RunFinally(t) /\ UNCHANGED sent
    /\ UNCHANGED <<appJs, listening, creating, posts, appVars, vizVars>>

\* the awaited updateSystemState returns: logMessage, then finally
UpdateReturns(t) ==
    /\ runs[t] = "updating"
    /\ RunFinally(t)
    /\ UNCHANGED <<appJs, listening, creating, posts, sent, appVars, vizVars>>

ControlNext ==
    \/ InitializeApp
    \/ ClickCreate
    \/ CreateSettles
    \/ \E h \in Handlers : ClickHandler(h)
    \/ \E h \in Handlers : PostSettles(h)
    \/ \E t \in Triggers : RunSimulation(t)
    \/ \E t \in Triggers : RunSettles(t)
    \/ \E t \in Triggers : UpdateReturns(t)

ControlSpec == ControlInit /\ [][ControlNext]_vars

\* every request is answered or fails, and an awaited updateSystemState returns
ControlFairSpec ==
    /\ ControlSpec
    /\ \A t \in Triggers : WF_vars(RunSettles(t)) /\ WF_vars(UpdateReturns(t))

----------------------------------------------------------------------------
(* Reading the last call's operations *)

IsOp(o, name) == o.op = name
IsClearRect(o) == IsOp(o, "clearRect")
IsFillRect(o) == IsOp(o, "fillRect")
IsFillArc(o) == IsOp(o, "fillArc")
IsStrokeArc(o) == IsOp(o, "strokeArc")
IsFillText(o) == IsOp(o, "fillText")
IsStrokeLine(o) == IsOp(o, "strokeLine")
IsArrowhead(o) == IsOp(o, "arrowhead")
IsNodeOrEdgeOp(o) == ~IsClearRect(o) /\ ~IsFillRect(o)

FillArcs == SelectSeq(issued, IsFillArc)
StrokeArcs == SelectSeq(issued, IsStrokeArc)
FillTexts == SelectSeq(issued, IsFillText)
StrokeLines == SelectSeq(issued, IsStrokeLine)
Arrowheads == SelectSeq(issued, IsArrowhead)

\* the last call was a render of snapshot on a bound surface
RenderedWfg == rendered /\ ctx.defined /\ snapshot.kind = "wfg"
RenderedFsa == rendered /\ ctx.defined /\ snapshot.kind = "fsa"

\* the ids drawFSADiagram lays out for the snapshot
StateIds == StateList(snapshot.nodes, snapshot.isArray)

InNodes(id) == \E k \in 1..Len(snapshot.nodes) : snapshot.nodes[k] = id
EdgeKnown(edge) == InNodes(edge.from) /\ InNodes(edge.to)
KnownEdges == SelectSeq(snapshot.edges, EdgeKnown)
SomeEdgeUnknown == \E k \in 1..Len(snapshot.edges) : ~EdgeKnown(snapshot.edges[k])

\* where the layout puts the node id of the snapshot
Expected(id) == NodePositions(impl, width, height, snapshot.nodes)[id]

\* the operation o joins the centres of the endpoints of edge
JoinsEdge(o, edge) ==
    /\ o.x1 = Expected(edge.from).x /\ o.y1 = Expected(edge.from).y
    /\ o.x2 = Expected(edge.to).x /\ o.y2 = Expected(edge.to).y

----------------------------------------------------------------------------
(* Claims *)

\* C1: a visualizer constructed without a canvas element is inert: every later
\* drawWaitForGraph or drawFSADiagram call issues no drawing operation and
\* returns without throwing.
C1_UnboundIsInert ==
    ~ctx.defined => /\ issued = <<>>
                    /\ surface = <<>>
                    /\ outcome # "threw"

\* C2: in every render call on a bound surface the clearRect and the background
\* fillRect come before every node or edge operation, so the canvas shows the
\* operations of the last call only.
C2_ClearedBeforeDrawing ==
    (ctx.defined /\ outcome # "none") =>
        /\ Len(issued) >= 2
        /\ IsClearRect(issued[1]) /\ issued[1].w = width /\ issued[1].h = height
        /\ IsFillRect(issued[2]) /\ issued[2].w = width /\ issued[2].h = height
        /\ issued[2].fillStyle = BackgroundColor(impl)
        /\ \A k \in 3..Len(issued) : IsNodeOrEdgeOp(issued[k])
        /\ surface = Tail(issued)

\* C2 witness: a call that drew fewer operations than the canvas showed before it
C2_Witness ==
    /\ ctx.defined /\ rendered
    /\ before > Len(surface)
    /\ Len(surface) = 1

\* C3: drawWaitForGraph draws an arrow only for an edge whose from and to are
\* both in nodes: every line and every arrowhead joins the positions of such an
\* edge, and there are no more of them than such edges.
C3_ArrowOnlyForKnownEndpoints ==
    RenderedWfg =>
        /\ Len(StrokeLines) <= Len(KnownEdges)
        /\ Len(Arrowheads) <= Len(KnownEdges)
        /\ \A k \in 1..Len(StrokeLines) :
               \E m \in 1..Len(KnownEdges) : JoinsEdge(StrokeLines[k], KnownEdges[m])
        /\ \A k \in 1..Len(Arrowheads) :
               \E m \in 1..Len(KnownEdges) : JoinsEdge(Arrowheads[k], KnownEdges[m])

\* C3 witness: a render of edges of which one is resolved and one is not
C3_Witness ==
    /\ RenderedWfg
    /\ Len(snapshot.edges) = 2
    /\ Len(KnownEdges) = 1
    /\ Len(StrokeLines) = 1

\* the labels of the nodes drawn, in drawing order
RECURSIVE LabelsOf(_)
LabelsOf(texts) ==
    IF texts = <<>> THEN <<>> ELSE <<texts[1].label>> \o LabelsOf(Tail(texts))

\* each node drawn is one filled circle, one outline and one label at one point
NodesWellFormed ==
    /\ Len(FillArcs) = Len(FillTexts)
    /\ Len(StrokeArcs) = Len(FillTexts)
    /\ \A k \in 1..Len(FillTexts) :
           /\ FillArcs[k].x = FillTexts[k].x /\ FillArcs[k].y = FillTexts[k].y
           /\ StrokeArcs[k].x = FillTexts[k].x /\ StrokeArcs[k].y = FillTexts[k].y

\* the color that tells the k-th drawn node's state: the outline and glow in
\* part_001, the fill in visualization.js
NodeColorDrawn(k) ==
    IF impl = "part_001" THEN StrokeArcs[k].strokeStyle ELSE FillArcs[k].fillStyle

\* C4: an edge with an unknown endpoint does not abort drawWaitForGraph: every
\* node is still drawn exactly once, in order, and every edge with both
\* endpoints in nodes is still drawn, wherever the malformed edge stands.
C4_UnknownEdgeDoesNotAbort ==
    (RenderedWfg /\ SomeEdgeUnknown) =>
        /\ outcome = "returned"
        /\ NodesWellFormed
        /\ LabelsOf(FillTexts) = snapshot.nodes
        /\ \A k \in 1..Len(FillTexts) :
               /\ FillTexts[k].x = Expected(snapshot.nodes[k]).x
               /\ FillTexts[k].y = Expected(snapshot.nodes[k]).y
        /\ Len(StrokeLines) = Len(KnownEdges)
        /\ Len(Arrowheads) = Len(KnownEdges)
        /\ \A k \in 1..Len(KnownEdges) :
               /\ JoinsEdge(StrokeLines[k], KnownEdges[k])
               /\ JoinsEdge(Arrowheads[k], KnownEdges[k])

\* C4 witness: the malformed edge comes first and a resolved edge follows it
C4_Witness ==
    /\ RenderedWfg
    /\ Len(snapshot.nodes) >= 2
    /\ Len(snapshot.edges) = 2
    /\ ~EdgeKnown(snapshot.edges[1])
    /\ EdgeKnown(snapshot.edges[2])
    /\ Len(StrokeLines) = 1
    /\ Len(FillTexts) = Len(snapshot.nodes)

\* C5: drawWaitForGraph draws a node in the alert color if and only if its id is
\* in deadlockedNodes; without deadlockedNodes every node has the default color.
C5_AlertIffDeadlocked ==
    RenderedWfg =>
        /\ Len(FillTexts) = Len(snapshot.nodes)
        /\ NodesWellFormed
        /\ \A k \in 1..Len(snapshot.nodes) :
               /\ NodeColorDrawn(k) = AlertColor
                      <=> IsDeadlocked(snapshot, snapshot.nodes[k])
               /\ NodeColorDrawn(k) \in {AlertColor, DefaultColor(impl)}

\* C6: drawFSADiagram with unique state ids draws every state, the state equal
\* to currentState in the active color and every other state in the neutral
\* color: one active node when currentState is a state, none when it is not.
C6_OneActiveState ==
    RenderedFsa =>
        /\ NodesWellFormed
        /\ LabelsOf(FillTexts) = StateIds
        /\ \A k \in 1..Len(StateIds) :
               NodeColorDrawn(k) = IF StateIds[k] = snapshot.currentState
                                   THEN ActiveColor(impl) ELSE NeutralColor(impl)
        /\ Cardinality({k \in 1..Len(FillTexts) : NodeColorDrawn(k) = ActiveColor(impl)})
               = IF InNodes(snapshot.currentState) THEN 1 ELSE 0

\* C6 witness: three states drawn, the current one not the first
C6_Witness ==
    /\ RenderedFsa
    /\ Len(snapshot.nodes) = 3
    /\ snapshot.currentState = "P3"
    /\ snapshot.nodes[2] = "P3"
    /\ NodeColorDrawn(2) = ActiveColor(impl)
    /\ NodeColorDrawn(1) = NeutralColor(impl)

----------------------------------------------------------------------------
(* Claims about the layout, read off the circles drawn *)

Abs(a) == IF a < 0 THEN -a ELSE a
Close(a, b, tolerance) == Abs(a - b) <= tolerance

RenderedBound == rendered /\ ctx.defined
CountDrawn == Len(FillArcs)
Radius == LayoutRadius(impl, width, height)
Dx(k) == FillArcs[k].x - CenterX(width)
Dy(k) == FillArcs[k].y - CenterY(height)

PointsDistinct ==
    \A k, m \in 1..CountDrawn :
        k # m => (FillArcs[k].x # FillArcs[m].x \/ FillArcs[k].y # FillArcs[m].y)

\* the k-th point is at distance dist from the centre, to a tenth of a pixel
AtDistance(k, dist) ==
    Close(Dx(k) * Dx(k) + Dy(k) * Dy(k), dist * dist, 20 * dist + 100)

\* the k-th of n points is at distance dist in the direction 2*PI*(k-1)/n,
\* or in the opposite direction when sign is -1
AtAngle(k, n, dist, sign) ==
    /\ Close(Dx(k) * 1000, sign * dist * Cos1000(Degrees(k - 1, n)), 1000)
    /\ Close(Dy(k) * 1000, sign * dist * Sin1000(Degrees(k - 1, n)), 1000)

\* C7 as stated: for n >= 2 unique ids and every surface size the layout yields
\* n pairwise distinct points at distance radius from the centre, the id of
\* index i at angle 2*PI*i/n.
C7_DistinctPointsOnCircle ==
    (RenderedBound /\ Len(snapshot.nodes) >= 2) =>
        /\ CountDrawn = Len(snapshot.nodes)
        /\ PointsDistinct
        /\ Radius >= 0
        /\ \A k \in 1..CountDrawn :
               AtDistance(k, Radius) /\ AtAngle(k, CountDrawn, Radius, 1)

\* C7 amended: the n points are at distance |radius| from the centre; they are
\* pairwise distinct when radius # 0; the id of index i is at angle 2*PI*i/n
\* when radius >= 0 and at the opposite angle when radius < 0.
C7_PointsOnCircleOfAbsRadius ==
    (RenderedBound /\ Len(snapshot.nodes) >= 2) =>
        /\ CountDrawn = Len(snapshot.nodes)
        /\ Radius # 0 => PointsDistinct
        /\ \A k \in 1..CountDrawn :
               /\ AtDistance(k, Abs(Radius))
               /\ AtAngle(k, CountDrawn, Abs(Radius), IF Radius < 0 THEN -1 ELSE 1)

\* C7 witness: three points on a circle of positive radius
C7_Witness ==
    /\ RenderedBound
    /\ Len(snapshot.nodes) = 3
    /\ CountDrawn = 3
    /\ Radius > 0
    /\ Dx(1) = Radius /\ Dy(1) = 0
    /\ Dx(2) < 0 /\ Dy(2) > 0
    /\ Dx(3) < 0 /\ Dy(3) < 0

\* C8: the layout radius of a render call is min(width/2, height/2) minus the
\* margin clamped at 0: it is never negative, so the first node is never left
\* of the centre.
C8_RadiusNeverNegative ==
    RenderedBound =>
        /\ Radius >= 0
        /\ CountDrawn >= 1 => Dx(1) >= 0

\* C9: with an empty node sequence or an empty state sequence the render issues
\* exactly the clearRect and the background fillRect, also when edges is not
\* empty, and returns.
C9_EmptyDrawsBackgroundOnly ==
    (RenderedBound /\ Len(snapshot.nodes) = 0) =>
        /\ outcome = "returned"
        /\ Len(issued) = 2
        /\ IsClearRect(issued[1])
        /\ IsFillRect(issued[2])
        /\ surface = <<issued[2]>>
        /\ DOMAIN NodePositions(impl, width, height, snapshot.nodes) = {}

\* C9 witness: no node, an edge sequence that is not empty, a canvas that
\* showed nodes before the call
C9_Witness ==
    /\ RenderedWfg
    /\ Len(snapshot.nodes) = 0
    /\ Len(snapshot.edges) > 0
    /\ before > 1
    /\ Len(surface) = 1

\* C10 as stated: a single id is placed at angle 0 at the radius, at
\* (cx + radius, cy), and not at the centre (cx, cy).
C10_SingleNodeOffCentre ==
    (RenderedBound /\ Len(snapshot.nodes) = 1) =>
        /\ CountDrawn = 1
        /\ Dx(1) = Radius /\ Dy(1) = 0
        /\ ~(Dx(1) = 0 /\ Dy(1) = 0)

\* C10 amended: a single id is placed at (cx + radius, cy), which is the centre
\* exactly when the radius is 0.
C10_SingleNodeAtRadius ==
    (RenderedBound /\ Len(snapshot.nodes) = 1) =>
        /\ CountDrawn = 1
        /\ Dx(1) = Radius /\ Dy(1) = 0
        /\ (Dx(1) = 0 /\ Dy(1) = 0) <=> Radius = 0

\* C10 witness: a single node drawn off the centre
C10_Witness ==
    /\ RenderedBound
    /\ Len(snapshot.nodes) = 1
    /\ CountDrawn = 1
    /\ Radius > 0
    /\ Dx(1) > 0

----------------------------------------------------------------------------
(* Claims about repeated calls and the drawing surface *)

\* C11: render is idempotent: a render call given the snapshot the call before
\* it was given issues the same operations, with the same coordinates, colors
\* and settings, and leaves the same canvas content.
C11_RenderIdempotent ==
    [][(rendered /\ rendered' /\ ctx.defined)
          => (issued' = issued /\ surface' = surface /\ outcome' = outcome)]_vars

\* C11 witness: the cycle of two deadlocked processes rendered a second time
\* (the first render of a first snapshot begins on an empty canvas)
C11_Witness ==
    /\ RenderedWfg
    /\ snapshot = WfgData(<<"P1", "P2">>, <<Edge("P1", "P2"), Edge("P2", "P1")>>,
                          Present(<<"P1", "P2">>))
    /\ before = Len(surface)
    /\ Len(StrokeLines) = 2
    /\ Len(FillTexts) = 2

\* C12: no render call on a bound surface throws, whatever the snapshot of the
\* payload shape: empty nodes, ids no edge names, edges with unknown endpoints,
\* self-loops, repeated edges, deadlockedNodes absent or naming unknown ids,
\* any current state; the call returns with every node drawn.
C12_NoThrowWhenBound ==
    ctx.defined =>
        /\ outcome # "threw"
        /\ rendered => (outcome = "returned" /\ Len(FillTexts) = Len(snapshot.nodes))

\* C12 witness: a repeated edge with an unknown endpoint and deadlockedNodes
\* naming an unknown id, rendered
C12_Witness ==
    /\ RenderedWfg
    /\ outcome = "returned"
    /\ Len(snapshot.edges) = 2
    /\ snapshot.edges[1] = snapshot.edges[2]
    /\ ~EdgeKnown(snapshot.edges[1])
    /\ InNodes(snapshot.edges[1].from)
    /\ snapshot.deadlockedNodes.present
    /\ Len(FillTexts) >= 2

\* C13: the device-pixel-ratio scale is applied exactly once, at construction:
\* after construction and after any render calls the context's scale factor
\* equals the ratio, and the bitmap's size is the logical size times the ratio.
C13_ScaledOnceByDpr ==
    ctx.defined =>
        /\ scale = dpr
        /\ canvasWidth * 100 = width * dpr
        /\ canvasHeight * 100 = height * dpr

\* C14: layout and clearing use the logical size whatever the ratio: the
\* cleared and filled rectangle is width by height, the centre is
\* (width/2, height/2), the radius comes from the logical half extents.
C14_LogicalDimensions ==
    RenderedBound =>
        /\ issued[1].w = width /\ issued[1].h = height
        /\ issued[2].w = width /\ issued[2].h = height
        /\ CountDrawn = Len(snapshot.nodes)
        /\ \A k \in 1..CountDrawn :
               LET n == CountDrawn
                   r == Min(width * 50, height * 50) - Margin(impl) * 100
               IN  /\ FillArcs[k].x = width * 50
                                        + RoundDiv(r * Cos1000(Degrees(k - 1, n)), 1000)
                   /\ FillArcs[k].y = height * 50
                                        + RoundDiv(r * Sin1000(Degrees(k - 1, n)), 1000)

\* C14 witness: a render of two nodes by part_001 on a screen of ratio 2, whose
\* bitmap is twice the logical size
C14_Witness ==
    /\ RenderedBound
    /\ impl = "part_001"
    /\ dpr = 200
    /\ canvasWidth = 2 * width
    /\ CountDrawn = 2
    /\ FillArcs[1].y = height * 50
    /\ FillArcs[1].x + FillArcs[2].x = width * 100

\* C15: every drawn edge's segment is pulled in from both centres by exactly the
\* radius with which the nodes are drawn, so that each segment endpoint lies
\* on the boundary of its node's circle.
C15_InsetEqualsNodeRadius ==
    RenderedWfg =>
        \A k \in 1..Len(StrokeLines) : \A j \in 1..Len(FillArcs) :
            /\ StrokeLines[k].inset = FillArcs[j].r
            /\ Arrowheads[k].inset = FillArcs[j].r

\* C16: drawFSADiagram never draws an edge: whatever states and currentState,
\* the render is the clear, the background fill and one node drawing (circle,
\* outline, label) per state id, and no line segment or arrowhead.
C16_FsaDrawsNoEdge ==
    RenderedFsa =>
        /\ StrokeLines = <<>>
        /\ Arrowheads = <<>>
        /\ Len(issued) = 2 + 3 * Len(snapshot.nodes)
        /\ IsClearRect(issued[1])
        /\ IsFillRect(issued[2])
        /\ \A k \in 1..Len(snapshot.nodes) :
               /\ IsFillArc(issued[3 * k])
               /\ IsStrokeArc(issued[3 * k + 1])
               /\ IsFillText(issued[3 * k + 2])

\* C16 witness: the five lifecycle states drawn, fifteen node operations
C16_Witness ==
    /\ RenderedFsa
    /\ snapshot.nodes = <<"NEW", "READY", "RUNNING", "BLOCKED", "TERMINATED">>
    /\ snapshot.currentState = "RUNNING"
    /\ Len(issued) = 17
    /\ Len(FillTexts) = 5

\* C17: when states is a mapping, the ids are laid out in the mapping's
\* insertion order, the key inserted i-th at angle 2*pi*i/n, for every set
\* of string keys.
C17_MappingInInsertionOrder ==
    (RenderedFsa /\ ~snapshot.isArray) =>
        /\ LabelsOf(FillTexts) = snapshot.nodes
        /\ \A k \in 1..Len(snapshot.nodes) :
               LET p == LayoutPoint(impl, width, height, k - 1, Len(snapshot.nodes))
               IN  FillTexts[k].x = p.x /\ FillTexts[k].y = p.y

\* what a call on a newly constructed visualizer issues for the snapshot
FirstCall ==
    IF snapshot.kind = "wfg"
    THEN DrawWaitForGraphCall(impl, FreshCtx, SurfaceSize(impl, width, canvasWidth),
                              SurfaceSize(impl, height, canvasHeight), snapshot)
    ELSE DrawFSADiagramCall(impl, FreshCtx, SurfaceSize(impl, width, canvasWidth),
                            SurfaceSize(impl, height, canvasHeight),
                            snapshot.nodes, snapshot.isArray, snapshot.currentState)

\* C18: a render call keeps no render state: it leaves the input snapshot and
\* every property of the visualizer object as they were, and what it draws is
\* what a first call with the same input on the same surface draws, whatever
\* calls came before.
C18_NoRenderState ==
    [][rendered' =>
          /\ snapshot' = snapshot
          /\ fields' = fields
          /\ <<impl', width', height', canvasWidth', canvasHeight', scale'>>
                 = <<impl, width, height, canvasWidth, canvasHeight, scale>>
          /\ ctx.defined => issued' = FirstCall.ops]_vars

\* C18 witness: a second snapshot rendered after an earlier render of another
C18_Witness ==
    /\ RenderedWfg
    /\ snapshot \in LaterSnapshots
    /\ Len(snapshot.nodes) = 2
    /\ before > 2
    /\ before # Len(surface)
    /\ fields = ConstructedFields(impl, TRUE)

\* an operation that draws part of an edge, part of a node
IsEdgeOp(o) == IsStrokeLine(o) \/ IsArrowhead(o)
IsNodeOp(o) == IsFillArc(o) \/ IsStrokeArc(o) \/ IsFillText(o)

\* C21: within one drawWaitForGraph call every edge operation precedes every
\* node operation, and the nodes are drawn in the order of the input sequence.
C21_EdgesBeforeNodes ==
    RenderedWfg =>
        /\ \A j, k \in 1..Len(issued) :
               (IsEdgeOp(issued[j]) /\ IsNodeOp(issued[k])) => j < k
        /\ LabelsOf(FillTexts) = snapshot.nodes
        /\ \A k \in 1..Len(FillTexts) :
               /\ FillArcs[k].x = Expected(snapshot.nodes[k]).x
               /\ FillArcs[k].y = Expected(snapshot.nodes[k]).y

\* C21 witness: nodes P2, P1 and one resolved edge: the line and the arrowhead
\* come right after the background, then P2 is drawn, then P1
C21_Witness ==
    /\ RenderedWfg
    /\ snapshot.nodes = <<"P2", "P1">>
    /\ Len(StrokeLines) = 1
    /\ IsArrowhead(issued[4])
    /\ IsFillArc(issued[5])
    /\ LabelsOf(FillTexts) = <<"P2", "P1">>

----------------------------------------------------------------------------
(* Claims about the caller, checked under AppSpec *)

\* the calls that are inside a render method of the visualizer of canvas
Rendering(canvas) == {c \in Calls : pc[c] = canvas}
InFlight == {c \in Calls : pc[c] \in {"fetching", "reading"}}

\* the render calls of method made by call c
RendersBy(c, method) ==
    SelectSeq(renderLog, LAMBDA e : e.by = c /\ e.method = method)

\* C19: render calls on one surface never overlap: a render runs to completion
\* without suspension, so with several updateSystemState calls in flight no
\* two calls are inside a render of the same canvas.
C19_RendersNeverOverlap ==
    /\ Cardinality(Rendering("wfg")) <= 1
    /\ Cardinality(Rendering("fsa")) <= 1
    /\ \A c \in Calls : pc[c] \in {"wfg", "fsa"} => running = c

\* C19 witness: the second call is drawing the graph of its state while the
\* first, issued earlier, is still waiting for its response's body
C19_Witness ==
    /\ pc[2] = "wfg"
    /\ pc[1] = "reading"
    /\ InFlight = {1}
    /\ renderLog = <<[by |-> 2, method |-> "drawWaitForGraph",
                     arg |-> stateOf[2].wait_for_graph]>>

\* C20: the caller renders once per snapshot: a call whose fetch succeeded
\* makes at most one drawWaitForGraph call, only when its state has
\* wait_for_graph, and at most one drawFSADiagram call, only when its state
\* has fsa, both with the data of its own state; a call whose fetch failed
\* makes no render call.
C20_OncePerSnapshot ==
    \A c \in Calls :
        LET graphs == RendersBy(c, "drawWaitForGraph")
            diagrams == RendersBy(c, "drawFSADiagram")
        IN  /\ Len(graphs) <= 1
            /\ Len(diagrams) <= 1
            /\ graphs # <<>> =>
                   /\ fetched[c] = "ok"
                   /\ stateOf[c].parsed
                   /\ stateOf[c].wait_for_graph.present
                   /\ graphs[1].arg = stateOf[c].wait_for_graph
            /\ diagrams # <<>> =>
                   /\ fetched[c] = "ok"
                   /\ stateOf[c].parsed
                   /\ stateOf[c].fsa.present
                   /\ diagrams[1].arg = stateOf[c].fsa
            /\ fetched[c] \in {"notOk", "rejected"} =>
                   (graphs = <<>> /\ diagrams = <<>> /\ pc[c] = "done")

\* C20 witness: both calls' fetches succeeded with different states, each call
\* rendered its own graph and diagram once, the later response first
C20_Witness ==
    /\ pc = [c \in Calls |-> "done"]
    /\ Len(renderLog) = 3
    /\ renderLog[1].by = 2
    /\ renderLog[3].by = 1
    /\ stateOf[1] # stateOf[2]
    /\ stateOf[2].fsa.present
    /\ ~stateOf[1].fsa.present
    /\ shown.wfg = stateOf[1].wait_for_graph
    /\ shown.fsa = stateOf[2].fsa

\* the call that made the last render call of method
LastRenderBy(method) ==
    LET those == SelectSeq(renderLog, LAMBDA e : e.method = method)
    IN  those[Len(those)].by

\* the calls whose state request was answered with a state that was rendered
Answered == {c \in Calls : RendersBy(c, "drawWaitForGraph") # <<>>
                           /\ RendersBy(c, "drawFSADiagram") # <<>>}

\* C22: the canvases end up showing the newest state: once every
\* updateSystemState call has completed, whatever the order of the responses,
\* the state last rendered on each canvas is the one returned for the most
\* recently issued state request.
C22_NewestStateShown ==
    ((\A c \in Calls : pc[c] = "done") /\ Answered = Calls) =>
        /\ LastRenderBy("drawWaitForGraph") = MaxCalls
        /\ LastRenderBy("drawFSADiagram") = MaxCalls
        /\ shown.wfg = stateOf[MaxCalls].wait_for_graph
        /\ shown.fsa = stateOf[MaxCalls].fsa

\* the fetch of call c failed: a network error, or a response that is not ok
Failed(c) == fetched[c] \in {"notOk", "rejected"}

\* C26: a state fetch that fails changes nothing on screen: the badge, the
\* iteration counter, the lists and both canvases stay as they were, and
\* updateSystemState returns to its caller without the error.
C26_FailedFetchChangesNothing ==
    [][\A c \in Calls :
          /\ (fetched[c] = "none" /\ Failed(c)') =>
                 (shown' = shown /\ renderLog' = renderLog /\ pc'[c] = "done")
          /\ Failed(c) =>
                 (pc'[c] = "done" /\ stateOf'[c] = NoState
                  /\ RendersBy(c, "drawWaitForGraph")' = <<>>
                  /\ RendersBy(c, "drawFSADiagram")' = <<>>)]_vars

\* C26 witness: the first call's state is on the page and on both canvases,
\* the second call's fetch was rejected and the call has returned
C26_Witness ==
    /\ fetched[1] = "ok" /\ fetched[2] = "rejected"
    /\ pc[1] = "done" /\ pc[2] = "done"
    /\ stateOf[1].parsed
    /\ shown.page = stateOf[1]
    /\ shown.wfg = stateOf[1].wait_for_graph
    /\ shown.wfg.present
    /\ shown.fsa.present
    /\ Len(renderLog) = 2

----------------------------------------------------------------------------
(* Claims about the handlers, checked under ControlSpec *)

\* the runSimulation calls awaiting the response of their POST
RunsInFlight == {t \in Triggers : runs[t] = "posting"}

\* C23: at most one run request is in flight at any time, whether the trigger
\* is the run button or the Ctrl/Cmd+Enter shortcut.
C23_OneRunInFlight == Cardinality(RunsInFlight) <= 1

\* the run button is enabled and shows its label
RunButtonRestored == ~runBtn.disabled /\ runBtn.label = "Run Simulation"

\* C24: every runSimulation call that disables the run button eventually
\* enables it again and restores the label 'Run Simulation', on every outcome
\* of the request.
C24_RunButtonRestored ==
    \A t \in Triggers :
        (runs[t] \in {"posting", "updating"} /\ runBtn.disabled)
            ~> (runs[t] = "returned" /\ RunButtonRestored)

\* C24 witness: both runSimulation calls have returned and the button is
\* enabled with its label, after a state request made by a complete run
C24_Witness ==
    /\ runs = [t \in Triggers |-> "returned"]
    /\ RunButtonRestored
    /\ sent = Request("state", "sim1")
    /\ creating = "created"
    /\ posts = {}

\* the requests that carry the simulation id in their path
Scoped(r) == r.endpoint \in Handlers \cup {"run", "state"}

\* C25: no simulation-scoped request (add process, add resource, request
\* resource, run, reset, fetch state) is sent while currentSimId is null, and
\* currentSimId becomes non-null only when a create request has succeeded.
C25_NoRequestWithoutSimulation ==
    [][/\ (sent' # sent /\ Scoped(sent')) => (currentSimId' # "" /\ sent'.sim = currentSimId')
       /\ Scoped(sent') => sent'.sim # ""
       /\ currentSimId' # currentSimId =>
              (currentSimId = "" /\ creating = "posting" /\ creating' = "created")]_vars

\* C25 witness: a simulation exists, a reset was posted with its id while a
\* run and an add-process request are in flight
C25_Witness ==
    /\ currentSimId = "sim1"
    /\ sent = Request("reset", "sim1")
    /\ posts = {"process", "reset"}
    /\ runs["shortcut"] = "posting"
    /\ creating = "created"

====
